---- MODULE Spec2Model ----
(***************************************************************************)
(* Model of src/App.tsx: the 3D furniture viewer.  The state is the React  *)
(* state and refs of App(), the scene graph objects the refs point to, and *)
(* the environment's own state (mounted view, GL surface, scheduled        *)
(* animation frames, gesture recognisers, committed-but-unflushed effect). *)
(*                                                                         *)
(* Numbers.  Camera distances are exact rationals <<num, den>> in lowest   *)
(* terms (the code uses IEEE doubles; rounding is not modelled).  Angles   *)
(* are integers counting hundredths of a radian and pan translations are   *)
(* whole points, so "delta * 0.01" rad is delta * Sensitivity hundredths.  *)
(* A nullable ref is <<>> (null) or <<v>>.                                 *)
(***************************************************************************)
EXTENDS Integers, Sequences, FiniteSets, TLC

\* ------------------------------------------------------------------ bounds
\* largest |tilt| (rotation x, hundredths of a radian) the pan inputs may reach
MaxTilt == 1
\* largest |turn| (rotation y, hundredths of a radian) the pan inputs may reach
MaxTurn == 5
\* largest denominator of a camera distance the pinch inputs may produce
MaxDen == 2

\* ------------------------------------------------------------ basic values
NULL == <<>>

Some(v) == <<v>>

Val(ref) == ref[1]

RECURSIVE GCD(_, _)
GCD(a, b) == IF b = 0 THEN a ELSE GCD(b, a % b)

\* the rational n/d in lowest terms (n >= 0, d > 0)
Rat(n, d) == LET g == GCD(n, d) IN <<n \div g, d \div g>>

\* a / s on rationals, s > 0
RatDiv(a, s) == Rat(a[1] * s[2], a[2] * s[1])

RatLeq(a, b) == a[1] * b[2] <= b[1] * a[2]

MathMin(a, b) == IF RatLeq(a, b) THEN a ELSE b

MathMax(a, b) == IF RatLeq(a, b) THEN b ELSE a

Abs(i) == IF i < 0 THEN -i ELSE i

\* ------------------------------------------------------ program constants
FURNITURE_ITEMS ==
  << [id |-> 1, name |-> "Modern Chair", type |-> "chair"],
     [id |-> 2, name |-> "Coffee Table", type |-> "table"],
     [id |-> 3, name |-> "Floor Lamp",   type |-> "lamp"] >>

COLOR_OPTIONS ==
  << [name |-> "White",        value |-> 16777215],
     [name |-> "Black",        value |-> 0],
     [name |-> "Natural Wood", value |-> 13808780],
     [name |-> "Blue",         value |-> 4286945],
     [name |-> "Red",          value |-> 11674146] >>

\* camera.position.z = 3 and useRef<number>(3)
InitialCameraZ == Rat(3, 1)

\* Math.max(1.5, ...)
MinDistance == Rat(3, 2)

\* Math.min(5, ...)
MaxDistance == Rat(5, 1)

\* "* 0.01": hundredths of a radian per point of translation
Sensitivity == 1

Origin == [x |-> 0, y |-> 0]

\* ------------------------------------------------------------------- state
VARIABLES
  selectedItem,       \* useState(FURNITURE_ITEMS[0])
  selectedColor,      \* useState(COLOR_OPTIONS[0])
  isLoading,          \* useState(true)
  sceneRef,           \* NULL or <<[children |-> set of [cls, id]]>>
  cameraRef,          \* NULL or <<[y |-> 1, z |-> rational]>>
  rendererRef,        \* NULL or <<"Renderer">>
  objectRef,          \* NULL or <<id>> of a furniture model in objects
  animationRef,       \* NULL or <<id>> of the last requested frame
  initialCameraZRef,  \* the zoom anchor
  rotationRef,        \* accumulated orientation [x, y]
  lastPositionRef,    \* last pan sample [x, y]
  objects,            \* heap: live furniture models, id -> [type, color, rotation]
  mounted,            \* the App view is mounted
  glContext,          \* GLView has delivered its context
  effectPending,      \* a render with a changed selection is committed, its effect not yet run
  pendingFrames,      \* ids of scheduled requestAnimationFrame callbacks
  panActive,          \* the pan recogniser is active
  pinchActive,        \* the pinch recogniser is active
  panBase,            \* history: rotationRef when the current pan gesture began
  panSum,             \* history: sum of all pan deltas applied since startup
  panFresh,           \* history: the current pan gesture has applied no update yet
  pinchBase,          \* history: camera distance when the current pinch gesture began
  lastScale,          \* history: scale of the last update the current pinch gesture applied
  attachedPeak,       \* history: most furniture models attached at once during the last rebuild
  lateRender,         \* history: a frame callback ran after unmount
  outcome             \* history: how the last handler call ended: "ran",
                      \* "skipped <handler>" (early return on a missing ref) or "threw"

appVars == <<selectedItem, selectedColor, isLoading>>

sceneVars == <<sceneRef, rendererRef, objectRef, objects, attachedPeak>>

zoomVars == <<cameraRef, initialCameraZRef, pinchActive, pinchBase, lastScale>>

panVars == <<rotationRef, lastPositionRef, panActive, panBase, panSum, panFresh>>

loopVars == <<animationRef, pendingFrames, lateRender>>

envVars == <<mounted, glContext, effectPending>>

vars == <<appVars, sceneVars, zoomVars, panVars, loopVars, envVars, outcome>>

\* ------------------------------------------------------------------ helpers
\* the furniture models among a scene's children
Furniture(scene) == {c \in scene.children : c.cls = "Group"}

\* identity of a newly allocated object: the least id not in use
NewId(used) ==
  CHOOSE i \in 1..(Cardinality(used) + 1) :
    i \notin used /\ \A j \in 1..(i - 1) : j \in used

\* ids still referenced from the scene or from the object ref
Live(sref, oref) ==
  (IF sref = NULL THEN {} ELSE {c.id : c \in Furniture(Val(sref))})
    \cup (IF oref = NULL THEN {} ELSE {Val(oref)})

\* variant: the material is built with the first colour option
createFurnitureModel_FirstColor(type, color) ==
  [type |-> type, color |-> COLOR_OPTIONS[1].value, rotation |-> Origin]

\* createFurnitureModel(type): a group whose parts share one material of the
\* selected colour, at the default position and rotation
createFurnitureModel(type, color) ==
  [type |-> type, color |-> color.value, rotation |-> Origin]

Init ==
  /\ selectedItem = FURNITURE_ITEMS[1]
  /\ selectedColor = COLOR_OPTIONS[1]
  /\ isLoading = TRUE
  /\ sceneRef = NULL
  /\ cameraRef = NULL
  /\ rendererRef = NULL
  /\ objectRef = NULL
  /\ animationRef = NULL
  /\ initialCameraZRef = InitialCameraZ
  /\ rotationRef = Origin
  /\ lastPositionRef = Origin
  /\ objects = << >>
  /\ mounted = TRUE
  /\ glContext = FALSE
  /\ effectPending = FALSE
  /\ pendingFrames = {}
  /\ panActive = FALSE
  /\ pinchActive = FALSE
  /\ panBase = Origin
  /\ panSum = Origin
  /\ panFresh = FALSE
  /\ pinchBase = NULL
  /\ lastScale = NULL
  /\ attachedPeak = 0
  /\ lateRender = FALSE
  /\ outcome = "ran"


\* how a handler ends once it reads a property of ref.current: a null ref
\* makes the read throw a TypeError
Deref(ref) == IF ref = NULL THEN "threw" ELSE "ran"

\* ------------------------------------------------------------ scene manager
\* scene.remove(object): no effect when the object is not a child
SceneRemove(scene, id) ==
  [scene EXCEPT !.children = @ \ {[cls |-> "Group", id |-> id]}]

\* scene.add(object)
SceneAdd(scene, id) ==
  [scene EXCEPT !.children = @ \cup {[cls |-> "Group", id |-> id]}]

\* new THREE.Scene() after the two lights and the grid helper were added
NewScene ==
  [children |-> {[cls |-> "AmbientLight", id |-> 0],
                 [cls |-> "DirectionalLight", id |-> 0],
                 [cls |-> "GridHelper", id |-> 0]}]

\* variant: the previous model is left attached
updateFurnitureModel_NoDetach(sref) ==
  IF sref = NULL
  THEN /\ sceneRef' = sref
       /\ outcome' = "skipped updateFurnitureModel"
       /\ UNCHANGED <<objectRef, objects, attachedPeak>>
  ELSE LET id       == NewId(DOMAIN objects)
           model    == createFurnitureModel(selectedItem.type, selectedColor)
           attached == Some(SceneAdd(Val(sref), id))
       IN /\ objectRef' = Some(id)
          /\ sceneRef' = attached
          /\ outcome' = Deref(sref)
          /\ objects' = [i \in Live(attached, Some(id)) |->
                           IF i = id THEN model ELSE objects[i]]
          /\ attachedPeak' = Cardinality(Furniture(Val(attached)))

Max3(a, b, c) ==
  IF a >= b /\ a >= c THEN a ELSE IF b >= c THEN b ELSE c

\* updateFurnitureModel(), run against the scene ref value sref that is
\* current when it is called; sets sceneRef, objectRef, objects and the
\* record of how many models the scene held along the way
updateFurnitureModel(sref) ==
  IF sref = NULL
  THEN /\ sceneRef' = sref
       /\ outcome' = "skipped updateFurnitureModel"
       /\ UNCHANGED <<objectRef, objects, attachedPeak>>
  ELSE LET detached == IF objectRef # NULL
                       THEN SceneRemove(Val(sref), Val(objectRef))
                       ELSE Val(sref)
           id       == NewId(DOMAIN objects)
           model    == createFurnitureModel(selectedItem.type, selectedColor)
           attached == Some(SceneAdd(detached, id))
       IN /\ objectRef' = Some(id)
          /\ sceneRef' = attached
          /\ outcome' = Deref(sref)
          /\ objects' = [i \in Live(attached, Some(id)) |->
                           IF i = id THEN model ELSE objects[i]]
          /\ attachedPeak' = Max3(Cardinality(Furniture(Val(sref))),
                                  Cardinality(Furniture(detached)),
                                  Cardinality(Furniture(Val(attached))))

\* one run of the render callback: request the next frame, then draw
\* (the draw itself changes no state); a run after unmount is recorded
render(frames) ==
  LET id == NewId(frames \cup (IF animationRef = NULL THEN {} ELSE {Val(animationRef)}))
  IN /\ animationRef' = Some(id)
     /\ pendingFrames' = frames \cup {id}
     /\ lateRender' = (lateRender \/ ~mounted)

\* GLView delivers its context, once, to the mounted view
onContextCreate ==
  /\ mounted
  /\ ~glContext
  /\ glContext' = TRUE
  /\ rendererRef' = Some("Renderer")
  /\ cameraRef' = Some([y |-> 1, z |-> InitialCameraZ])
  /\ updateFurnitureModel(Some(NewScene))
  /\ render(pendingFrames)
  /\ isLoading' = FALSE
  /\ UNCHANGED <<selectedItem, selectedColor, initialCameraZRef, pinchActive,
                 pinchBase, lastScale, panVars, mounted, effectPending>>

\* a scheduled frame callback fires
Frame(id) ==
  /\ id \in pendingFrames
  /\ render(pendingFrames \ {id})
  /\ outcome' = "ran"
  /\ UNCHANGED <<appVars, sceneVars, zoomVars, panVars, envVars>>

\* variant: the cleanup cancels nothing
Unmount_NoCancel ==
  /\ mounted
  /\ mounted' = FALSE
  /\ outcome' = "ran"
  /\ UNCHANGED <<appVars, sceneVars, zoomVars, panVars, loopVars,
                 glContext, effectPending>>

\* the cleanup of the mount effect
Unmount ==
  /\ mounted
  /\ mounted' = FALSE
  /\ pendingFrames' = IF animationRef # NULL
                      THEN pendingFrames \ {Val(animationRef)}
                      ELSE pendingFrames
  /\ outcome' = "ran"
  /\ UNCHANGED <<appVars, sceneVars, zoomVars, panVars, animationRef,
                 lateRender, glContext, effectPending>>

\* -------------------------------------------------------------- selection
\* onPress={() => setSelectedItem(item)}: a new value commits a render whose
\* effect is then pending; the same value bails out
SelectItem(item) ==
  /\ mounted
  /\ selectedItem' = item
  /\ effectPending' = (effectPending \/ item # selectedItem)
  /\ outcome' = "ran"
  /\ UNCHANGED <<selectedColor, isLoading, sceneVars, zoomVars, panVars,
                 loopVars, mounted, glContext>>

\* onPress={() => setSelectedColor(color)}
SelectColor(color) ==
  /\ mounted
  /\ selectedColor' = color
  /\ effectPending' = (effectPending \/ color # selectedColor)
  /\ outcome' = "ran"
  /\ UNCHANGED <<selectedItem, isLoading, sceneVars, zoomVars, panVars,
                 loopVars, mounted, glContext>>

\* variant: the rebuild also resets the view (orientation and zoom)
SelectionEffect_ResetsView ==
  /\ mounted
  /\ effectPending
  /\ effectPending' = FALSE
  /\ updateFurnitureModel(sceneRef)
  /\ rotationRef' = Origin
  /\ cameraRef' = IF cameraRef = NULL THEN NULL
                  ELSE Some([Val(cameraRef) EXCEPT !.z = InitialCameraZ])
  /\ UNCHANGED <<appVars, rendererRef, initialCameraZRef, pinchActive,
                 pinchBase, lastScale, lastPositionRef, panActive, panBase,
                 panSum, panFresh, loopVars, mounted, glContext>>

\* useEffect(() => { updateFurnitureModel(); }, [selectedItem, selectedColor])
SelectionEffect ==
  /\ mounted
  /\ effectPending
  /\ effectPending' = FALSE
  /\ updateFurnitureModel(sceneRef)
  /\ UNCHANGED <<appVars, rendererRef, zoomVars, panVars, loopVars, mounted,
                 glContext>>

\* ---------------------------------------------------------------- gestures
\* the pan recogniser activates (the code registers no handler for it)
PanBegin ==
  /\ mounted
  /\ ~panActive
  /\ panActive' = TRUE
  /\ panBase' = rotationRef
  /\ panFresh' = TRUE
  /\ outcome' = "ran"
  /\ UNCHANGED <<appVars, sceneVars, zoomVars, rotationRef, lastPositionRef,
                 panSum, loopVars, envVars>>

\* variant: the whole translation is added at every update
PanUpdate_AbsoluteDelta(tx, ty) ==
  /\ mounted
  /\ panActive
  /\ IF objectRef = NULL
     THEN /\ outcome' = "skipped panUpdate"
          /\ UNCHANGED <<rotationRef, lastPositionRef, objects, panSum, panFresh>>
     ELSE LET rot == [x |-> rotationRef.x + ty * Sensitivity,
                      y |-> rotationRef.y + tx * Sensitivity]
          IN /\ rotationRef' = rot
             /\ outcome' = Deref(objectRef)
             /\ objects' = [objects EXCEPT ![Val(objectRef)].rotation = rot]
             /\ lastPositionRef' = [x |-> tx, y |-> ty]
             /\ panSum' = [x |-> panSum.x + tx, y |-> panSum.y + ty]
             /\ panFresh' = FALSE
  /\ UNCHANGED <<appVars, sceneRef, rendererRef, objectRef, attachedPeak,
                 zoomVars, panActive, panBase, loopVars, envVars>>

\* variant: the handler does not return early when no model is attached; the
\* orientation is stored before the model is touched
PanUpdate_NoModelCheck(tx, ty) ==
  /\ mounted
  /\ panActive
  /\ LET deltaX == tx - lastPositionRef.x
         deltaY == ty - lastPositionRef.y
         rot    == [x |-> rotationRef.x + deltaY * Sensitivity,
                    y |-> rotationRef.y + deltaX * Sensitivity]
     IN /\ rotationRef' = rot
        /\ outcome' = Deref(objectRef)
        /\ IF objectRef = NULL
           THEN UNCHANGED <<lastPositionRef, objects, panSum, panFresh>>
           ELSE /\ objects' = [objects EXCEPT ![Val(objectRef)].rotation = rot]
                /\ lastPositionRef' = [x |-> tx, y |-> ty]
                /\ panSum' = [x |-> panSum.x + deltaX, y |-> panSum.y + deltaY]
                /\ panFresh' = FALSE
  /\ UNCHANGED <<appVars, sceneRef, rendererRef, objectRef, attachedPeak,
                 zoomVars, panActive, panBase, loopVars, envVars>>

\* panGesture.onUpdate with event.translationX = tx, event.translationY = ty
PanUpdate(tx, ty) ==
  /\ mounted
  /\ panActive
  /\ IF objectRef = NULL
     THEN /\ outcome' = "skipped panUpdate"
          /\ UNCHANGED <<rotationRef, lastPositionRef, objects, panSum, panFresh>>
     ELSE LET deltaX == tx - lastPositionRef.x
              deltaY == ty - lastPositionRef.y
              rot    == [x |-> rotationRef.x + deltaY * Sensitivity,
                         y |-> rotationRef.y + deltaX * Sensitivity]
          IN /\ rotationRef' = rot
             /\ outcome' = Deref(objectRef)
             /\ objects' = [objects EXCEPT ![Val(objectRef)].rotation = rot]
             /\ lastPositionRef' = [x |-> tx, y |-> ty]
             /\ panSum' = [x |-> panSum.x + deltaX, y |-> panSum.y + deltaY]
             /\ panFresh' = FALSE
  /\ UNCHANGED <<appVars, sceneRef, rendererRef, objectRef, attachedPeak,
                 zoomVars, panActive, panBase, loopVars, envVars>>

\* variant: the last sample survives the end of the gesture
PanEnd_KeepsSample ==
  /\ mounted
  /\ panActive
  /\ panActive' = FALSE
  /\ rotationRef' = IF objectRef # NULL
                    THEN objects[Val(objectRef)].rotation
                    ELSE rotationRef
  /\ panBase' = Origin
  /\ panFresh' = FALSE
  /\ outcome' = "ran"
  /\ UNCHANGED <<appVars, sceneVars, zoomVars, lastPositionRef, panSum,
                 loopVars, envVars>>

\* panGesture.onEnd
PanEnd ==
  /\ mounted
  /\ panActive
  /\ panActive' = FALSE
  /\ rotationRef' = IF objectRef # NULL
                    THEN objects[Val(objectRef)].rotation
                    ELSE rotationRef
  /\ lastPositionRef' = Origin
  /\ panBase' = Origin
  /\ panFresh' = FALSE
  /\ outcome' = "ran"
  /\ UNCHANGED <<appVars, sceneVars, zoomVars, panSum, loopVars, envVars>>

\* pinchGesture.onStart
PinchStart ==
  /\ mounted
  /\ ~pinchActive
  /\ pinchActive' = TRUE
  /\ initialCameraZRef' = IF cameraRef # NULL
                          THEN Val(cameraRef).z
                          ELSE initialCameraZRef
  /\ pinchBase' = IF cameraRef # NULL THEN Some(Val(cameraRef).z) ELSE NULL
  /\ lastScale' = NULL
  /\ outcome' = IF cameraRef # NULL THEN Deref(cameraRef) ELSE "skipped pinchStart"
  /\ UNCHANGED <<appVars, sceneVars, cameraRef, panVars, loopVars, envVars>>

\* variant: the far limit is not applied
ZoomDistance_NoFarLimit(anchor, scale) ==
  MathMax(MinDistance, RatDiv(anchor, scale))

\* the distance pinchGesture.onUpdate writes for event.scale = scale
ZoomDistance(anchor, scale) ==
  MathMax(MinDistance, MathMin(MaxDistance, RatDiv(anchor, scale)))

\* variant: the scale is applied to the live distance, not to the anchor
PinchUpdate_Compounding(scale) ==
  /\ mounted
  /\ pinchActive
  /\ IF cameraRef = NULL
     THEN /\ outcome' = "skipped pinchUpdate"
          /\ UNCHANGED <<cameraRef, lastScale>>
     ELSE LET z == ZoomDistance(Val(cameraRef).z, scale)
          IN /\ cameraRef' = Some([Val(cameraRef) EXCEPT !.z = z])
             /\ outcome' = Deref(cameraRef)
             /\ lastScale' = Some(scale)
  /\ UNCHANGED <<appVars, sceneVars, initialCameraZRef, pinchActive,
                 pinchBase, panVars, loopVars, envVars>>

\* pinchGesture.onUpdate
PinchUpdate(scale) ==
  /\ mounted
  /\ pinchActive
  /\ IF cameraRef = NULL
     THEN /\ outcome' = "skipped pinchUpdate"
          /\ UNCHANGED <<cameraRef, lastScale>>
     ELSE LET z == ZoomDistance(initialCameraZRef, scale)
          IN /\ cameraRef' = Some([Val(cameraRef) EXCEPT !.z = z])
             /\ outcome' = Deref(cameraRef)
             /\ lastScale' = Some(scale)
  /\ UNCHANGED <<appVars, sceneVars, initialCameraZRef, pinchActive,
                 pinchBase, panVars, loopVars, envVars>>

\* variant: ending a pinch also clears the last pan sample
PinchEnd_ClearsPanSample ==
  /\ mounted
  /\ pinchActive
  /\ pinchActive' = FALSE
  /\ initialCameraZRef' = IF cameraRef # NULL
                          THEN Val(cameraRef).z
                          ELSE initialCameraZRef
  /\ pinchBase' = NULL
  /\ lastScale' = NULL
  /\ lastPositionRef' = Origin
  /\ outcome' = IF cameraRef # NULL THEN Deref(cameraRef) ELSE "skipped pinchEnd"
  /\ UNCHANGED <<appVars, sceneVars, cameraRef, rotationRef, panActive,
                 panBase, panSum, panFresh, loopVars, envVars>>

\* pinchGesture.onEnd
PinchEnd ==
  /\ mounted
  /\ pinchActive
  /\ pinchActive' = FALSE
  /\ initialCameraZRef' = IF cameraRef # NULL
                          THEN Val(cameraRef).z
                          ELSE initialCameraZRef
  /\ pinchBase' = NULL
  /\ lastScale' = NULL
  /\ outcome' = IF cameraRef # NULL THEN Deref(cameraRef) ELSE "skipped pinchEnd"
  /\ UNCHANGED <<appVars, sceneVars, cameraRef, panVars, loopVars, envVars>>

\* ------------------------------------------------------------------ inputs
Items == {FURNITURE_ITEMS[i] : i \in DOMAIN FURNITURE_ITEMS}

Colors == {COLOR_OPTIONS[i] : i \in DOMAIN COLOR_OPTIONS}

\* the colours tapped where the colour itself is not at issue: White, Blue
TwoColors == {COLOR_OPTIONS[1], COLOR_OPTIONS[4]}

\* cumulative pan translations (points) delivered by the recogniser
PanSamples == {<<0, 0>>, <<3, 0>>, <<5, 0>>, <<0, 1>>, <<-2, -1>>}

\* few samples, each moving both axes
UnitPanSamples == {<<1, 1>>, <<-1, -1>>}

\* pinch scales delivered by the recogniser, as rationals
PinchScales == {Rat(1, 10), Rat(1, 2), Rat(2, 3), Rat(1, 1), Rat(3, 2),
                Rat(2, 1), Rat(10, 1)}

FewPinchScales == {Rat(1, 10), Rat(1, 1), Rat(2, 1)}

\* the pan inputs keep the angles, and the summed deltas (x drives the turn,
\* y the tilt), within the bounds
RotWithin(tilt, turn) ==
  /\ Abs(rotationRef.x) <= tilt /\ Abs(rotationRef.y) <= turn
  /\ Abs(panSum.y) <= tilt /\ Abs(panSum.x) <= turn

\* the pinch inputs keep the camera distance on the grid of the bound
DenWithin == cameraRef = NULL \/ Val(cameraRef).z[2] <= MaxDen

\* every operation, with few gesture inputs
Next ==
  \/ onContextCreate
  \/ \E id \in pendingFrames : Frame(id)
  \/ Unmount
  \/ \E item \in Items : SelectItem(item)
  \/ \E color \in TwoColors : SelectColor(color)
  \/ SelectionEffect
  \/ PanBegin
  \/ (\E t \in UnitPanSamples : PanUpdate(t[1], t[2])) /\ RotWithin(MaxTilt, MaxTilt)'
  \/ PanEnd
  \/ PinchStart
  \/ (\E s \in FewPinchScales : PinchUpdate(s)) /\ DenWithin'
  \/ PinchEnd

Spec == Init /\ [][Next]_vars

\* surface, render loop and every selection
NextSelect ==
  \/ onContextCreate
  \/ \E id \in pendingFrames : Frame(id)
  \/ Unmount
  \/ \E item \in Items : SelectItem(item)
  \/ \E color \in Colors : SelectColor(color)
  \/ SelectionEffect

SpecSelect == Init /\ [][NextSelect]_vars

\* surface, furniture selection and the pan gesture with larger translations
NextPan ==
  \/ onContextCreate
  \/ \E item \in Items : SelectItem(item)
  \/ SelectionEffect
  \/ PanBegin
  \/ (\E t \in PanSamples : PanUpdate(t[1], t[2])) /\ RotWithin(MaxTilt, MaxTurn)'
  \/ PanEnd

SpecPan == Init /\ [][NextPan]_vars

\* surface, furniture selection and the pinch gesture with more scales
NextZoom ==
  \/ onContextCreate
  \/ \E item \in Items : SelectItem(item)
  \/ SelectionEffect
  \/ PinchStart
  \/ (\E s \in PinchScales : PinchUpdate(s)) /\ DenWithin'
  \/ PinchEnd

SpecZoom == Init /\ [][NextZoom]_vars

\* surface and the two gestures, recognised simultaneously (no selection)
NextGestures ==
  \/ onContextCreate
  \/ PanBegin
  \/ (\E t \in PanSamples : PanUpdate(t[1], t[2])) /\ RotWithin(MaxTilt, MaxTurn)'
  \/ PanEnd
  \/ PinchStart
  \/ (\E s \in PinchScales : PinchUpdate(s)) /\ DenWithin'
  \/ PinchEnd

SpecGestures == Init /\ [][NextGestures]_vars

\* ================================================================== claims
\* the furniture models attached to the scene (none before the scene exists)
Attached == IF sceneRef = NULL THEN {} ELSE Furniture(Val(sceneRef))

\* the model the object ref points to
Model == objects[Val(objectRef)]

CameraZ == Val(cameraRef).z

\* C1: whenever a camera exists its distance z satisfies 1.5 <= z <= 5, and
\* the step that creates the camera gives it distance 3.
C1_ZoomWithinRange ==
  /\ [](cameraRef # NULL =>
          /\ 3 * CameraZ[2] <= 2 * CameraZ[1]
          /\ CameraZ[1] <= 5 * CameraZ[2])
  /\ [][cameraRef = NULL /\ cameraRef' # NULL => Val(cameraRef').z = <<3, 1>>]_vars

\* a pinch has driven the camera to the far limit while a pan is also active
C1_Witness ==
  /\ cameraRef # NULL /\ CameraZ = <<5, 1>>
  /\ pinchActive /\ lastScale = Some(<<1, 10>>)
  /\ panActive /\ rotationRef # Origin

\* the quotient a / s limited to [1.5, 5], written out on fractions
ClampedQuotient(a, s) ==
  LET n == a[1] * s[2]
      d == a[2] * s[1]
  IN IF 2 * n < 3 * d THEN <<3, 2>>
     ELSE IF n > 5 * d THEN <<5, 1>>
     ELSE Rat(n, d)

\* the camera distance at the start of the current pinch gesture, 3 if the
\* camera did not exist yet
GestureStartDistance == IF pinchBase = NULL THEN <<3, 1>> ELSE Val(pinchBase)

\* C2: after a pinch update with scale s the camera distance is
\* clamp(a / s, 1.5, 5) for the distance a at the start of the gesture,
\* whatever samples came before (s = 1 gives a; from a = 3, s = 2 and s = 10
\* give 1.5 and s = 0.1 gives 5); between gestures the distance does not move.
C2_PinchFromAnchor ==
  /\ [](pinchActive /\ cameraRef # NULL /\ lastScale # NULL =>
          LET a == GestureStartDistance
              s == Val(lastScale)
          IN /\ CameraZ = ClampedQuotient(a, s)
             /\ s = <<1, 1>> => CameraZ = a
             /\ a = <<3, 1>> /\ s = <<2, 1>> => CameraZ = <<3, 2>>
             /\ a = <<3, 1>> /\ s = <<10, 1>> => CameraZ = <<3, 2>>
             /\ a = <<3, 1>> /\ s = <<1, 10>> => CameraZ = <<5, 1>>)
  /\ [][~pinchActive /\ cameraRef # NULL => cameraRef' = cameraRef]_vars

\* a later gesture, begun at 1.5, has zoomed back out to 3 with scale 1/2
C2_Witness ==
  /\ pinchActive /\ cameraRef # NULL
  /\ pinchBase = Some(<<3, 2>>)
  /\ lastScale = Some(<<1, 2>>)
  /\ CameraZ = <<3, 1>>

\* C3: the scene never holds more than one furniture model, not even inside
\* a rebuild, and holds exactly one once the surface is initialised.
C3_OneModelAttached ==
  /\ Cardinality(Attached) <= 1
  /\ attachedPeak <= 1
  /\ glContext => Cardinality(Attached) = 1 /\ objectRef # NULL
                  /\ Attached = {[cls |-> "Group", id |-> Val(objectRef)]}

\* a second model has replaced the first while gestures were active
C3_Witness ==
  /\ glContext /\ ~effectPending
  /\ selectedItem = FURNITURE_ITEMS[3]
  /\ Cardinality(Attached) = 1
  /\ objectRef = Some(2)
  /\ panActive /\ pinchActive

\* C4: once the surface is initialised and no rebuild is pending, the one
\* attached model is of the selected kind in the selected colour (Chair in
\* 0xffffff by default, the table in 0x4169e1 for Coffee Table and Blue).
C4_ModelMatchesSelection ==
  glContext /\ ~effectPending =>
    /\ Attached = {[cls |-> "Group", id |-> Val(objectRef)]}
    /\ Model.type = selectedItem.type
    /\ Model.color = selectedColor.value
    /\ selectedItem.name = "Modern Chair" /\ selectedColor.name = "White"
         => Model.type = "chair" /\ Model.color = 16777215
    /\ selectedItem.name = "Coffee Table" /\ selectedColor.name = "Blue"
         => Model.type = "table" /\ Model.color = 4286945

\* Coffee Table and Blue were tapped and the rebuild has run
C4_Witness ==
  /\ glContext /\ ~effectPending
  /\ selectedItem.name = "Coffee Table" /\ selectedColor.name = "Blue"
  /\ objectRef # Some(1)
  /\ Model.type = "table" /\ Model.color = 4286945

\* a step that changes the selection or runs the rebuild it triggered
SelectionStep ==
  \/ selectedItem' # selectedItem
  \/ selectedColor' # selectedColor
  \/ effectPending /\ ~effectPending'

\* C5: a selection change and its rebuild leave the orientation state, the
\* last pan sample, the zoom anchor and the camera distance as they were.
C5_SelectionKeepsView ==
  [][SelectionStep =>
       UNCHANGED <<rotationRef, lastPositionRef, initialCameraZRef, cameraRef>>]_vars

\* a model was rebuilt (its rotation is fresh) in the middle of a pan and a
\* pinch that had both moved the view
C5_Witness ==
  /\ glContext /\ ~effectPending /\ objectRef = Some(2)
  /\ panActive /\ pinchActive
  /\ rotationRef # Origin /\ lastPositionRef # Origin
  /\ CameraZ # <<3, 1>> /\ initialCameraZRef # CameraZ
  /\ Model.rotation = Origin

\* a step in which the selection effect replaces an attached model
ReplaceStep ==
  effectPending /\ ~effectPending' /\ objectRef # NULL /\ objectRef' # objectRef

C7_NoRenderAfterUnmount ==
  /\ ~lateRender
  /\ ~mounted => pendingFrames = {}

\* the view was unmounted after the loop had run a tick: the frame it had
\* requested last is cancelled
C7_Witness ==
  /\ ~mounted /\ glContext
  /\ animationRef = Some(2)
  /\ pendingFrames = {}

\* a pan update that applies its sample to the attached model
PanUpdateStep ==
  /\ panActive /\ panActive'
  /\ objectRef # NULL /\ objectRef' = objectRef
  /\ <<rotationRef, lastPositionRef, objects>>' # <<rotationRef, lastPositionRef, objects>>

\* C8: during a pan gesture with a model attached the orientation is the
\* orientation at gesture start plus 0.01 rad per point of the last
\* cumulative translation (x from translationY, y from translationX), however
\* the movement was sampled, and every update leaves the model's rotation
\* equal to the orientation.  Angles are in hundredths of a radian.
C8_PanLinear ==
  /\ [](panActive /\ objectRef # NULL =>
          /\ rotationRef.x = panBase.x + lastPositionRef.y
          /\ rotationRef.y = panBase.y + lastPositionRef.x)
  /\ [][PanUpdateStep => objects'[Val(objectRef')].rotation = rotationRef']_vars

\* translation 5 reached in a gesture that began at orientation (-1, -2)
C8_Witness ==
  /\ panActive /\ objectRef # NULL /\ ~panFresh
  /\ panBase = [x |-> -1, y |-> -2]
  /\ lastPositionRef = [x |-> 5, y |-> 0]
  /\ rotationRef = [x |-> -1, y |-> 3]
  /\ Model.rotation = rotationRef

\* C9: the last pan sample is (0,0) whenever no pan gesture is in progress,
\* and the first update a gesture applies adds exactly its own sample.
C9_PanEndResetsSample ==
  /\ [](~panActive => lastPositionRef = Origin)
  /\ [][panFresh /\ ~panFresh' /\ panActive' =>
          /\ rotationRef'.x = rotationRef.x + lastPositionRef'.y
          /\ rotationRef'.y = rotationRef.y + lastPositionRef'.x]_vars

\* a later gesture has applied its first sample on top of an orientation
\* left by an earlier gesture
C9_Witness ==
  /\ panActive /\ ~panFresh /\ objectRef # NULL
  /\ panBase # Origin
  /\ lastPositionRef = [x |-> 3, y |-> 0]
  /\ rotationRef = [x |-> panBase.x, y |-> panBase.y + 3]

\* C10: between pan gestures the orientation is 0.01 rad per point of the sum
\* of all pan deltas applied since startup, and the end of a pan gesture does
\* not change the orientation.
C10_PanGesturesCompose ==
  /\ [](~panActive => rotationRef.x = panSum.y /\ rotationRef.y = panSum.x)
  /\ [][panActive /\ ~panActive' => rotationRef' = rotationRef]_vars

\* C11: with no model attached a pan update leaves the orientation and the
\* last pan sample as they were; with no camera a pinch start, update or end
\* leaves the zoom anchor as it was; a rebuild with no scene creates no scene,
\* attaches nothing and leaves the model ref as it was; no handler throws.
C11_NullSafeNoOps ==
  /\ [](outcome # "threw")
  /\ [][objectRef = NULL /\ panActive /\ panActive' =>
          UNCHANGED <<rotationRef, lastPositionRef>>]_vars
  /\ [][cameraRef = NULL => initialCameraZRef' = initialCameraZRef]_vars
  /\ [][sceneRef = NULL /\ effectPending /\ ~effectPending' =>
          /\ sceneRef' = NULL
          /\ UNCHANGED <<objectRef, objects>>
          /\ outcome' = "skipped updateFurnitureModel"]_vars
  /\ [][outcome' = "skipped panUpdate" => objectRef = NULL]_vars
  /\ [][outcome' \in {"skipped pinchStart", "skipped pinchUpdate", "skipped pinchEnd"}
          => cameraRef = NULL]_vars

\* before the surface is ready: a rebuild was requested and skipped, both
\* gestures are active and a pinch update has just been skipped
C11_Witness ==
  /\ sceneRef = NULL /\ cameraRef = NULL /\ objectRef = NULL
  /\ selectedItem # FURNITURE_ITEMS[1] /\ ~effectPending
  /\ panActive /\ pinchActive
  /\ outcome = "skipped pinchUpdate"
  /\ initialCameraZRef = <<3, 1>>
  /\ rotationRef = Origin /\ lastPositionRef = Origin

\* a step of the pan gesture: it begins, ends, or an update changes pan state
PanEventStep ==
  \/ panActive' # panActive
  \/ panActive /\ <<rotationRef, lastPositionRef, panFresh>>' # <<rotationRef, lastPositionRef, panFresh>>
  \/ PanUpdateStep

\* a step of the pinch gesture: it starts, ends, or an update is applied
PinchEventStep ==
  \/ pinchActive' # pinchActive
  \/ pinchActive /\ <<cameraRef, initialCameraZRef, lastScale>>' # <<cameraRef, initialCameraZRef, lastScale>>
       /\ cameraRef # NULL

\* C12: pan events change neither the camera nor the zoom anchor, pinch
\* events change neither the orientation, the model rotation nor the last
\* pan sample; so in every interleaving each gesture's result is the one it
\* has run alone: orientation = orientation at pan start + 0.01 rad per point
\* of the last translation (and the sum of all deltas), distance =
\* clamp(distance at pinch start / last scale), both kept by the gesture ends.
C12_GesturesIndependent ==
  /\ [][PanEventStep => UNCHANGED <<cameraRef, initialCameraZRef>>]_vars
  /\ [][PinchEventStep => UNCHANGED <<rotationRef, lastPositionRef, objects>>]_vars
  /\ [](panActive /\ objectRef # NULL =>
          rotationRef = [x |-> panBase.x + lastPositionRef.y,
                         y |-> panBase.y + lastPositionRef.x])
  /\ [](rotationRef = [x |-> panSum.y, y |-> panSum.x])
  /\ [](pinchActive /\ cameraRef # NULL =>
          CameraZ = IF lastScale = NULL THEN GestureStartDistance
                    ELSE ClampedQuotient(GestureStartDistance, Val(lastScale)))
  /\ [](~pinchActive /\ cameraRef # NULL => initialCameraZRef = CameraZ)
  /\ [][panActive /\ ~panActive' => UNCHANGED <<rotationRef, objects>>]_vars
  /\ [][pinchActive /\ ~pinchActive' => cameraRef' = cameraRef]_vars

\* both gestures are active and both have moved the view: the pan, begun at
\* a non-zero orientation, is at translation (3,0); the pinch, begun at 1.5,
\* has zoomed out to 3
C12_Witness ==
  /\ panActive /\ pinchActive /\ objectRef # NULL
  /\ panBase # Origin /\ lastPositionRef = [x |-> 3, y |-> 0]
  /\ rotationRef = [x |-> panBase.x, y |-> panBase.y + 3]
  /\ Model.rotation = rotationRef
  /\ pinchBase = Some(<<3, 2>>) /\ lastScale = Some(<<1, 2>>)
  /\ CameraZ = <<3, 1>>

====
